---- MODULE Spec2Model ----
(***************************************************************************)
(* Magic Mirror: face enrollment and recognition.                          *)
(*                                                                         *)
(* The model covers the persistence layer (lib/db), the two API routes     *)
(* (POST /api/users, POST /api/recognize), the client-side matcher         *)
(* findBestMatch (lib/face-recognition) and the training page.             *)
(*                                                                         *)
(* JavaScript values are tagged records (field "kind"), so that values of  *)
(* different JavaScript types can be held by the same variable.  Numbers   *)
(* are exact reals written in tenths: Num(6) is 0.6, Num(10) is 1.  The    *)
(* square root of a number that has no rational root is kept as the surd   *)
(* Root(n), and 1 - Root(n) as OneMinusRoot(n), so that every comparison   *)
(* the code makes is decided exactly.  The rounding of IEEE doubles is     *)
(* not modelled.                                                           *)
(*                                                                         *)
(* An array is Arr(len, vals): an array of len elements whose first        *)
(* Len(vals) elements are vals and whose remaining elements are the        *)
(* number 0.                                                               *)
(***************************************************************************)
EXTENDS Integers, Sequences, FiniteSets, TLC

VARIABLES
    users,      \* table "users" (prisma.user), rows in insertion order
    sessions,   \* table "sessions" (prisma.session), rows in insertion order
    last,       \* the last call that completed: its arguments and its outcome
    calls,      \* number of calls made so far
    inflight,   \* bodies of the POST /api/users requests that have passed the
                \* email check and have not yet called createUser
    \* the state of the training page (useState)
    currentStep, formData, photos, currentPhotoIndex, isCapturing,
    captureCountdown, isProcessing, modelsLoaded, error, success,
    loading,        \* loadModels has not settled yet
    captureIndex,   \* currentPhotoIndex in the closure of the capturePhoto that
                    \* the memoised startPhotoCapture calls
    interval,       \* the countdown interval: Null, or the capturePhoto it calls
    image,          \* the Image being loaded: Null, or the capturePhoto that made it
    request,        \* the fetch in flight: Null, or what processTrainingData sent
    effectDue,      \* a dependency of the auto-process effect changed in the
                    \* last render and the effect has not run yet
    \* the module state of the two model loaders, each indexed by the loader
    modelLoadingPromise,    \* let modelLoadingPromise: Null or a promise
    loaderModelsLoaded,     \* let modelsLoaded (of the module, not of the page)
    promises,       \* the promises made by loadModels / loadBasicModel so far,
                    \* in order: "pending", "fulfilled" or "rejected"
    loadCalls,      \* the calls of the loader so far, in order: where each
                    \* call stands and the promise it waits for or returned
    \* FaceDetectionComponent
    mounted,        \* the component is mounted
    state,          \* useState: detectedFaces is the number of faces held
    detectionIntervalRef,   \* detectionIntervalRef.current: Null or a timer id
    timers,         \* the interval timers that are scheduled, each with the
                    \* performFaceDetection it calls
    pending,        \* what the component waits for: loadFaceApiModels, the
                    \* getUserMedia calls, the detectFaces calls
    detectorEffectDue   \* a dependency of the auto-start effect changed:
                        \* "cleanup" is due, then "effect"; else "no"

page == <<currentStep, formData, photos, currentPhotoIndex, isCapturing,
          captureCountdown, isProcessing, modelsLoaded, error, success, loading,
          captureIndex, interval, image, request, effectDue>>

\* the store, and the record of the calls made on it
server == <<users, sessions, last, calls, inflight>>

\* the module state of lib/face-recognition and lib/face-recognition-basic
library == <<modelLoadingPromise, loaderModelsLoaded, promises, loadCalls>>

\* FaceDetectionComponent
detector == <<mounted, state, detectionIntervalRef, timers, pending,
              detectorEffectDue>>

vars == <<users, sessions, last, calls, inflight, page, library, detector>>

\* ------------------------------------------------------------- bounds
MaxCalls == 3
\* passes through the training page (resetTraining starts the next one)
MaxPasses == 2
\* calls of each model loader
MaxLoadCalls == 3
\* getUserMedia calls, and detectFaces calls, that FaceDetectionComponent
\* waits for at one time
MaxPending == 2

\* ------------------------------------------------- program constants
\* body.faceDescriptor.length !== 128
DescriptorLength == 128
\* the number 1 (threshold > 1, 1 - distance), in tenths
One == 10
\* validPhotos.length < 3
MinValidPhotos == 3
\* const TARGET_PHOTOS = 8
TARGET_PHOTOS == 8
\* const CAPTURE_DELAY = 3
CAPTURE_DELAY == 3
\* body.threshold || 0.6, threshold: number = 0.6, in tenths
DefaultThreshold == 6
\* body.confidence || 0.8, in tenths
DefaultConfidence == 8

\* ------------------------------------------------ JavaScript values
Undefined == [kind |-> "undefined"]
Null == [kind |-> "null"]
NaN == [kind |-> "NaN"]
Throw == [kind |-> "throw"]
Num(n) == [kind |-> "number", val |-> n]
Str(s) == [kind |-> "string", val |-> s]
Arr(n, h) == [kind |-> "array", len |-> n, vals |-> h]
Root(n) == [kind |-> "root", of |-> n]
OneMinusRoot(n) == [kind |-> "1-root", of |-> n]

IsNum(v) == v.kind = "number"

\* JavaScript truthiness, as used by !x and x || y
Truthy(v) ==
    CASE v.kind = "undefined" -> FALSE
      [] v.kind = "null" -> FALSE
      [] v.kind = "NaN" -> FALSE
      [] v.kind = "number" -> v.val # 0
      [] v.kind = "string" -> v.val # ""
      [] OTHER -> TRUE

\* x || y
OrElse(x, y) == IF Truthy(x) THEN x ELSE y

\* Array.isArray(x)
IsArray(v) == v.kind = "array"

\* a[i - 1] in the code's indexing: undefined past the end of the array
At(a, i) ==
    IF i > a.len THEN Undefined
    ELSE IF i <= Len(a.vals) THEN a.vals[i]
    ELSE Num(0)

\* ToNumber, applied by the arithmetic operators to their operands
ToNumber(v) ==
    CASE v.kind = "number" -> v
      [] v.kind = "null" -> Num(0)
      [] v.kind = "string" -> IF v.val = "" THEN Num(0) ELSE NaN
      [] OTHER -> NaN

\* Minus that yields 0 where x - y is negative
MinusOrZero(x, y) ==
    IF IsNum(x) /\ IsNum(y)
    THEN Num(IF x.val > y.val THEN x.val - y.val ELSE 0)
    ELSE NaN

\* x - y
Minus(x, y) ==
    LET a == ToNumber(x)
        b == ToNumber(y)
    IN  IF IsNum(a) /\ IsNum(b) THEN Num(a.val - b.val) ELSE NaN

\* x * y, both numbers (or NaN); the product of two tenths is in hundredths
Times(x, y) == IF IsNum(x) /\ IsNum(y) THEN Num(x.val * y.val) ELSE NaN

\* x + y, both numbers (or NaN)
Plus(x, y) == IF IsNum(x) /\ IsNum(y) THEN Num(x.val + y.val) ELSE NaN

\* the largest r with r * r <= n, searched between lo and hi (lo * lo <= n < hi * hi)
RECURSIVE FloorSqrt(_, _, _)
FloorSqrt(n, lo, hi) ==
    IF hi - lo <= 1 THEN lo
    ELSE LET mid == (lo + hi) \div 2
         IN  IF mid * mid <= n THEN FloorSqrt(n, mid, hi) ELSE FloorSqrt(n, lo, mid)

\* Math.sqrt of a sum of squares given in hundredths; the result is in tenths
Sqrt(x) ==
    IF ~IsNum(x) THEN NaN
    ELSE IF x.val < 0 THEN NaN
    ELSE LET r == FloorSqrt(x.val, 0, x.val + 1)
         IN  IF r * r = x.val THEN Num(r) ELSE Root(x.val)

\* the square of a non-negative number or surd
SquareOf(x) == IF x.kind = "root" THEN x.of ELSE x.val * x.val

\* x < y on numbers; every comparison with NaN is false
LessThan(x, y) ==
    IF x.kind \notin {"number", "root"} \/ y.kind \notin {"number", "root"}
    THEN FALSE
    ELSE IF IsNum(x) /\ IsNum(y) THEN x.val < y.val
    ELSE IF IsNum(x) /\ x.val < 0 THEN TRUE
    ELSE IF IsNum(y) /\ y.val < 0 THEN FALSE
    ELSE SquareOf(x) < SquareOf(y)

\* 1 - distance
OneMinus(d) ==
    CASE d.kind = "number" -> Num(One - d.val)
      [] d.kind = "root" -> OneMinusRoot(d.of)
      [] OTHER -> NaN

\* s.trim() on the strings of the model
Trim(s) ==
    CASE s = " a@x " -> "a@x"
      [] s = " Ann " -> "Ann"
      [] s = "  " -> ""
      [] OTHER -> s

\* ------------------------------------------------------- lib/db
\* prisma.user.findUnique({ where: { id } }) behind getUserById
getUserById(rows, id) ==
    IF \E i \in 1..Len(rows) : rows[i].id = id
    THEN rows[CHOOSE i \in 1..Len(rows) : rows[i].id = id]
    ELSE Null

\* prisma.user.findUnique({ where: { email } }) behind getUserByEmail
getUserByEmail(rows, email) ==
    IF \E i \in 1..Len(rows) : rows[i].email = email
    THEN rows[CHOOSE i \in 1..Len(rows) : rows[i].email = email]
    ELSE Null

\* prisma.user.findMany with select, mapped to { descriptor, userId, name }
getAllFaceDescriptors(rows) ==
    [i \in 1..Len(rows) |->
        [descriptor |-> rows[i].faceDescriptor,
         userId |-> rows[i].id,
         name |-> rows[i].name]]

\* the for loop of calculateEuclideanDistance from index i on, sum so far.
\* Past the written elements of both arrays every element is 0, diff is 0 and
\* sum += 0 leaves sum as it is (NaN stays NaN), so the loop is cut short there.
RECURSIVE SumOfSquares(_, _, _, _)
SumOfSquares(desc1, desc2, i, sum) ==
    IF i > desc1.len THEN sum
    ELSE IF i > Len(desc1.vals) /\ i > Len(desc2.vals) THEN sum
    ELSE LET diff == Minus(At(desc1, i), At(desc2, i))
         IN  SumOfSquares(desc1, desc2, i + 1, Plus(sum, Times(diff, diff)))

\* calculateEuclideanDistance: Throw stands for the thrown Error
calculateEuclideanDistance(desc1, desc2) ==
    IF desc1.len # desc2.len THEN Throw
    ELSE Sqrt(SumOfSquares(desc1, desc2, 1, Num(0)))

\* IsCloser with <= in place of <
IsCloserOrEqual(distance, bestDistance) ==
    LessThan(distance, bestDistance) \/ distance = bestDistance

\* IsBetter with <= in place of <
IsBetterOrEqual(distance, bestDistance) ==
    LessThan(distance, bestDistance) \/ distance = bestDistance

\* IsCloser with > in place of <
IsFarther(distance, bestDistance) == LessThan(bestDistance, distance)

\* the condition that replaces the best match: distance < bestMatch.distance
IsCloser(distance, bestDistance) == LessThan(distance, bestDistance)

\* ScanUsers stopping at the first candidate that is closer than the threshold
ScanUsersFirstHit(rows, list, inputDescriptor, i, acc) ==
    LET hits == {k \in i..Len(list) :
                   LessThan(calculateEuclideanDistance(inputDescriptor,
                                                       list[k].descriptor),
                            acc.distance)}
    IN  IF hits = {}
        THEN [acc EXCEPT !.distanceCalls = Len(list)]
        ELSE LET k == CHOOSE k \in hits : \A j \in hits : k <= j
             IN  [acc EXCEPT
                    !.user = getUserById(rows, list[k].userId),
                    !.distance = calculateEuclideanDistance(inputDescriptor,
                                                            list[k].descriptor),
                    !.distanceCalls = k,
                    !.reads = @ + 1]

\* the for loop of findUserByFaceDescriptor from candidate i on.  acc holds
\* bestMatch (user, distance), whether an error was thrown, and counts of the
\* distance computations and of the getUserById reads made.
RECURSIVE ScanUsers(_, _, _, _, _)
ScanUsers(rows, list, inputDescriptor, i, acc) ==
    IF i > Len(list) THEN acc
    ELSE LET distance == calculateEuclideanDistance(inputDescriptor, list[i].descriptor)
         IN  IF distance.kind = "throw"
             THEN [acc EXCEPT !.threw = TRUE, !.distanceCalls = @ + 1]
             ELSE IF IsCloser(distance, acc.distance)
             THEN ScanUsers(rows, list, inputDescriptor, i + 1,
                    [acc EXCEPT !.user = getUserById(rows, list[i].userId),
                                !.distance = distance,
                                !.distanceCalls = @ + 1,
                                !.reads = @ + 1])
             ELSE ScanUsers(rows, list, inputDescriptor, i + 1,
                    [acc EXCEPT !.distanceCalls = @ + 1])

\* findUserByFaceDescriptor: the matched row or Null; a thrown error is caught
\* and answered with Null.  reads counts the store reads (findMany included).
findUserByFaceDescriptor(rows, inputDescriptor, threshold) ==
    LET list == getAllFaceDescriptors(rows)
        acc == ScanUsers(rows, list, inputDescriptor, 1,
                 [user |-> Null, distance |-> threshold, threw |-> FALSE,
                  distanceCalls |-> 0, reads |-> 1])
    IN  [user |-> IF acc.threw THEN Null ELSE acc.user,
         distanceCalls |-> acc.distanceCalls,
         reads |-> acc.reads]

\* createSession writing the row twice
createSessionTwice(table, userId, confidence) ==
    Append(Append(table, [id |-> Len(table) + 1, userId |-> userId,
                          confidence |-> confidence]),
           [id |-> Len(table) + 2, userId |-> userId, confidence |-> confidence])

\* prisma.session.create behind createSession
createSession(table, userId, confidence) ==
    Append(table, [id |-> Len(table) + 1, userId |-> userId, confidence |-> confidence])

\* prisma.user.create behind createUser: Throw when the unique index on email
\* refuses the row (createUser rethrows it as Error("Failed to create user"))
createUser(rows, data) ==
    IF data.email # Null /\ \E i \in 1..Len(rows) : rows[i].email = data.email
    THEN Throw
    ELSE [kind |-> "user",
          id |-> Len(rows) + 1,
          name |-> data.name,
          email |-> data.email,
          faceDescriptor |-> data.faceDescriptor,
          photos |-> data.photos]

\* ------------------------------------------- POST /api/recognize
\* a response that touched nothing
Rejected(status, message) ==
    [status |-> status, error |-> message, recognized |-> FALSE, data |-> Null,
     session |-> Null, threshold |-> Undefined, reads |-> 0, distanceCalls |-> 0]

\* ValidateDescriptor without its length check
ValidateDescriptorNoLength(faceDescriptor) ==
    IF ~Truthy(faceDescriptor) \/ ~IsArray(faceDescriptor)
    THEN "Valid face descriptor is required"
    ELSE ""

\* the descriptor checks shared by both routes: the error message, or "" when
\* the descriptor passes
ValidateDescriptor(faceDescriptor) ==
    IF ~Truthy(faceDescriptor) \/ ~IsArray(faceDescriptor)
    THEN "Valid face descriptor is required"
    ELSE IF faceDescriptor.len # DescriptorLength
    THEN "Face descriptor must be 128 dimensions"
    ELSE ""

\* const threshold = body.threshold || 0.6
ThresholdOf(body) == OrElse(body.threshold, Num(DefaultThreshold))

\* ThresholdOutOfRange without threshold < 0
ThresholdAboveOne(threshold) == LessThan(Num(One), threshold)

\* threshold < 0 || threshold > 1
ThresholdOutOfRange(threshold) ==
    LessThan(threshold, Num(0)) \/ LessThan(Num(One), threshold)

\* const confidence = body.confidence || 0.8
ConfidenceOf(body) == OrElse(body.confidence, Num(DefaultConfidence))

\* the response to a request whose descriptor matched the row matchedUser,
\* and the session row to create
MatchResponse(matchedUser, confidence, threshold, found) ==
    [status |-> 200, error |-> "", recognized |-> TRUE,
     data |-> [userId |-> matchedUser.id,
               name |-> matchedUser.name,
               email |-> matchedUser.email,
               confidence |-> confidence],
     session |-> [userId |-> matchedUser.id, confidence |-> confidence],
     threshold |-> threshold,
     reads |-> found.reads,
     distanceCalls |-> found.distanceCalls]

\* NoMatchResponse answering 404 Not Found
NoMatchResponseAs404(threshold, found) ==
    [status |-> 404, error |-> "No matching user found", recognized |-> FALSE,
     data |-> Null, session |-> Null, threshold |-> threshold,
     reads |-> found.reads, distanceCalls |-> found.distanceCalls]

\* the response to a request whose descriptor matched no row
NoMatchResponse(threshold, found) ==
    [status |-> 200, error |-> "", recognized |-> FALSE,
     data |-> Null, session |-> Null, threshold |-> threshold,
     reads |-> found.reads, distanceCalls |-> found.distanceCalls]

\* the POST handler of /api/recognize on the table rows: the response, the
\* session row it asks createSession for, and what it read and computed
RecognizePOST(body, rows) ==
    IF ValidateDescriptor(body.faceDescriptor) # ""
    THEN Rejected(400, ValidateDescriptor(body.faceDescriptor))
    ELSE LET threshold == ThresholdOf(body)
         IN  IF ThresholdOutOfRange(threshold)
             THEN Rejected(400, "Threshold must be between 0 and 1")
             ELSE LET found == findUserByFaceDescriptor(rows, body.faceDescriptor, threshold)
                      matchedUser == found.user
                  IN  IF matchedUser # Null
                      THEN MatchResponse(matchedUser, ConfidenceOf(body), threshold, found)
                      ELSE NoMatchResponse(threshold, found)

\* ----------------------------------------------- POST /api/users
\* a response of POST /api/users that created nothing
Refused(status, message, reads) ==
    [status |-> status, error |-> message, created |-> Null, reads |-> reads]

\* body.email?.trim() || undefined, stored as NULL when undefined
EmailOf(body) ==
    IF body.email.kind = "string" /\ Trim(body.email.val) # ""
    THEN Str(Trim(body.email.val))
    ELSE Null

\* POST /api/users up to and including the email check: the response that
\* ends the request there, or Null when the handler goes on to createUser
UsersCheck(body, rows) ==
    IF ~Truthy(body.name)
    THEN Refused(400, "Name is required", 0)
    ELSE IF ValidateDescriptor(body.faceDescriptor) # ""
    THEN Refused(400, ValidateDescriptor(body.faceDescriptor), 0)
    ELSE IF Truthy(body.email) /\ getUserByEmail(rows, body.email) # Null
    THEN Refused(409, "User with this email already exists", 1)
    ELSE Null

\* POST /api/users from userData on: createUser on the table rows, and the
\* response.  The catch looks for "Unique constraint" in the message of the
\* error, which createUser has replaced by "Failed to create user".
UsersCreate(body, rows) ==
    LET reads == IF Truthy(body.email) THEN 1 ELSE 0
        userData == [name |-> Trim(body.name.val),
                     email |-> EmailOf(body),
                     faceDescriptor |-> body.faceDescriptor,
                     photos |-> body.photos]
        user == createUser(rows, userData)
    IN  IF user.kind = "throw"
        THEN Refused(500, "Failed to create user", reads)
        ELSE [status |-> 201, error |-> "", created |-> user, reads |-> reads]

\* the POST handler of /api/users on the table rows, run without another
\* request in between: the response, the row it creates, and the number of
\* store reads it made
UsersPOST(body, rows) ==
    IF UsersCheck(body, rows) # Null
    THEN UsersCheck(body, rows)
    ELSE UsersCreate(body, rows)

\* ------------------------------------------ lib/face-recognition
\* new Float32Array(a): every element becomes a number (or NaN)
Float32ArrayOf(a) == Arr(a.len, [i \in 1..Len(a.vals) |-> ToNumber(a.vals[i])])

\* compareFaceDescriptors: faceapi.euclideanDistance, which throws on arrays of
\* different lengths and otherwise is the root of the sum of squared differences
compareFaceDescriptors(descriptor1, descriptor2) ==
    IF descriptor1.len # descriptor2.len THEN Throw
    ELSE Sqrt(SumOfSquares(descriptor1, descriptor2, 1, Num(0)))

\* the condition that replaces the best match: distance < bestDistance
IsBetter(distance, bestDistance) == LessThan(distance, bestDistance)

\* confidence: 1 - distance
ConfidenceFrom(distance) == OneMinus(distance)

\* the for loop of findBestMatch from candidate i on; Throw when the distance
\* computation throws (findBestMatch catches nothing)
RECURSIVE BestMatchFrom(_, _, _, _, _)
BestMatchFrom(inputDescriptor, knownDescriptors, i, bestMatch, bestDistance) ==
    IF i > Len(knownDescriptors) THEN bestMatch
    ELSE LET known == knownDescriptors[i]
             distance == compareFaceDescriptors(inputDescriptor, known.descriptor)
         IN  IF distance.kind = "throw" THEN Throw
             ELSE IF IsBetter(distance, bestDistance)
             THEN BestMatchFrom(inputDescriptor, knownDescriptors, i + 1,
                    [kind |-> "result",
                     userId |-> known.userId,
                     name |-> known.name,
                     confidence |-> ConfidenceFrom(distance)],
                    distance)
             ELSE BestMatchFrom(inputDescriptor, knownDescriptors, i + 1,
                    bestMatch, bestDistance)

\* findBestMatch with bestDistance starting at 0 instead of the threshold
findBestMatchFromZero(inputDescriptor, knownDescriptors, threshold) ==
    BestMatchFrom(inputDescriptor, knownDescriptors, 1, Null, Num(0))

\* findBestMatch(inputDescriptor, knownDescriptors, threshold = 0.6)
findBestMatch(inputDescriptor, knownDescriptors, threshold) ==
    BestMatchFrom(inputDescriptor, knownDescriptors, 1, Null,
                  IF threshold.kind = "undefined" THEN Num(DefaultThreshold) ELSE threshold)

\* ---------------------------------------------------------- inputs
\* a descriptor of DescriptorLength elements that starts with a, b
Vec(a, b) == Arr(DescriptorLength, <<a, b>>)

\* well-formed descriptors that are enrolled; a descriptor of QueryDescriptors
\* is at distance 0, 0.3, 0.4 or 0.5 of them
EnrolDescriptors == {Vec(Num(0), Num(0)), Vec(Num(3), Num(4))}

\* well-formed descriptors that are looked up
QueryDescriptors == {Vec(Num(0), Num(0)), Vec(Num(3), Num(0))}

\* an array of the right length holding an element that is not a number
\* (JSON.stringify writes NaN as null)
NonNumericDescriptors == {Vec(Null, Num(0))}

\* a faceDescriptor that is missing, no array, or of the wrong length
BadShapeDescriptors ==
    {Undefined, Str("abc"),
     Arr(DescriptorLength - 1, <<Num(0), Num(0)>>),
     Arr(DescriptorLength + 1, <<Num(0), Num(0)>>)}

\* what a request can carry as threshold: nothing, -0.1, 0, 0.4, 1, 1.1
ThresholdInputs == {Undefined, Num(-1), Num(0), Num(4), Num(One), Num(One + 1)}

\* what a request can carry as confidence: nothing or 0.7
ConfidenceInputs == {Undefined, Num(7)}

RecognizeBodies ==
    [faceDescriptor : QueryDescriptors \cup NonNumericDescriptors \cup BadShapeDescriptors,
     threshold : ThresholdInputs,
     confidence : ConfidenceInputs]

UsersBodies ==
    [name : {Undefined, Str("Ann")},
     email : {Undefined, Str("a@x")},
     faceDescriptor : EnrolDescriptors \cup NonNumericDescriptors \cup BadShapeDescriptors,
     photos : {0}]

\* bodies of the POST /api/users requests that are in progress together: a
\* name or none, no email, an email, the same email between spaces, and a
\* descriptor that passes validation or one that is an element short
ConcurrentBodies ==
    [name : {Undefined, Str("Ann")},
     email : {Undefined, Str("a@x"), Str(" a@x ")},
     faceDescriptor : {Vec(Num(3), Num(4)),
                       Arr(DescriptorLength - 1, <<Num(0), Num(0)>>)},
     photos : {0}]

\* descriptors that a caller of findUserByFaceDescriptor looks up: two of
\* DescriptorLength elements and one that is an element short
LookupDescriptors ==
    QueryDescriptors \cup {Arr(DescriptorLength - 1, <<Num(0), Num(0)>>)}

\* thresholds that a caller of findUserByFaceDescriptor passes: none (the
\* default applies) or 0.4
LookupThresholds == {Undefined, Num(4)}

\* descriptors handed to calculateEuclideanDistance: coordinates -0.3, 0 and 0.4
\* in two lengths
DistanceInputs ==
    {Arr(n, <<Num(a), Num(b)>>) :
        n \in {DescriptorLength - 1, DescriptorLength}, a \in {-3, 0, 4}, b \in {-3, 0, 4}}

\* ------------------------------------------------- training page
\* A closure of capturePhoto: the currentPhotoIndex of the render it was
\* created in (useCallback(..., [currentPhotoIndex])).
Closure(index) == [kind |-> "closure", currentPhotoIndex |-> index]

\* webcamRef.current: the Webcam is mounted by the capture step only
webcamRef == IF currentStep = "capture" THEN Str("webcam") ELSE Null

\* sum / n; a quotient that is no multiple of a tenth is kept as a ratio
Divide(sum, n) ==
    IF ~IsNum(sum) THEN NaN
    ELSE IF sum.val % n = 0 THEN Num(sum.val \div n)
    ELSE [kind |-> "ratio", num |-> sum.val, den |-> n]

\* SumAt that adds the first array only
SumAtFirst(descriptorArrays, i, k, sum) == Plus(sum, At(descriptorArrays[1], i))

\* descriptorArrays.reduce((sum, desc) => sum + desc[i], 0), from the k-th array on
RECURSIVE SumAt(_, _, _, _)
SumAt(descriptorArrays, i, k, sum) ==
    IF k > Len(descriptorArrays) THEN sum
    ELSE SumAt(descriptorArrays, i, k + 1, Plus(sum, At(descriptorArrays[k], i)))

\* the largest number of written elements among the arrays, from the k-th on
RECURSIVE MaxWritten(_, _, _)
MaxWritten(descriptorArrays, k, most) ==
    IF k > Len(descriptorArrays) THEN most
    ELSE MaxWritten(descriptorArrays, k + 1,
            IF Len(descriptorArrays[k].vals) > most
            THEN Len(descriptorArrays[k].vals) ELSE most)

\* The leading coordinates of the average that have to be computed.  When no
\* array is shorter than the first, every coordinate past the written elements
\* is 0 / n = 0; when one is shorter, desc[i] is undefined from its end on and
\* the coordinates are computed up to the length of the first array.
Computed(descriptorArrays) ==
    LET first == descriptorArrays[1]
        most == MaxWritten(descriptorArrays, 1, 0)
    IN  IF \E k \in 1..Len(descriptorArrays) : descriptorArrays[k].len < first.len
        THEN first.len
        ELSE IF most < first.len THEN most ELSE first.len

\* descriptorArrays[0].map((_, i) => reduce(...) / descriptorArrays.length)
AverageDescriptor(descriptorArrays) ==
    LET first == descriptorArrays[1]
    IN  Arr(first.len,
            [i \in 1..Computed(descriptorArrays) |->
                Divide(SumAt(descriptorArrays, i, 1, Num(0)), Len(descriptorArrays))])

\* JSON.stringify followed by JSON.parse on an array of numbers: NaN becomes null
JsonOf(a) ==
    Arr(a.len, [i \in 1..Len(a.vals) |->
                    IF a.vals[i].kind = "NaN" THEN Null ELSE a.vals[i]])

\* photos.filter((photo) => photo.descriptor)
ValidPhotos(list) == SelectSeq(list, LAMBDA photo : Truthy(photo.descriptor))

\* TooFewPhotos accepting two valid photos
TooFewPhotosBelowTwo(validPhotos) == Len(validPhotos) < MinValidPhotos - 1

\* validPhotos.length < 3
TooFewPhotos(validPhotos) == Len(validPhotos) < MinValidPhotos

\* `Need at least 3 photos with detected faces. Got ${validPhotos.length}.`
TooFewMessage(validPhotos) ==
    "Need at least 3 photos with detected faces. Got "
        \o ToString(Len(validPhotos)) \o "."

\* `Successfully registered ${formData.name}! Used ${validPhotos.length} photos for training.`
SuccessMessage(name, count) ==
    "Successfully registered " \o name \o "! Used "
        \o ToString(count) \o " photos for training."

\* the body of the fetch as the server parses it: JSON.stringify drops the
\* undefined email
RequestBody(data, validPhotos) ==
    [name |-> Str(data.name),
     email |-> OrElse(Str(data.email), Undefined),
     faceDescriptor |->
        JsonOf(AverageDescriptor(
            [k \in 1..Len(validPhotos) |-> validPhotos[k].descriptor])),
     photos |-> Len(validPhotos)]

\* what the visitor can type into the form
NameInputs == {"", "  ", "Ann"}
EmailInputs == {"", "a@x"}

\* webcamRef.current.getScreenshot(): a data URL, or null while no frame is there
Screenshots == {Null, Str("data:image/jpeg")}

\* detectFaceInImage: the descriptor of the detected face, or null
Detections == {Null, Vec(Num(3), Num(4))}

\* what a photo can hold when the detector is free to return different
\* descriptors: no face, or one of two descriptors of DescriptorLength elements
EqualSamples == {Undefined, Vec(Num(3), Num(4)), Vec(Num(0), Num(9))}

\* the same with a descriptor that is one element short
UnequalSamples ==
    {Undefined, Vec(Num(3), Num(4)), Arr(DescriptorLength - 1, <<Num(3), Num(4)>>)}

\* the photo lists of a full pass whose descriptors are taken from samples
PhotoLists(samples) ==
    [1..TARGET_PHOTOS ->
        {[faceDetected |-> d # Undefined, descriptor |-> d] : d \in samples}]

SamplePhotoLists == PhotoLists(EqualSamples) \cup PhotoLists(UnequalSamples)

\* ---------------------------------------------------------- actions
ServerInit ==
    /\ users = <<>>
    /\ sessions = <<>>
    /\ last = [op |-> "none"]
    /\ calls = 0
    /\ inflight = <<>>

\* a client posts body to /api/recognize and the handler runs to its response
PostRecognize ==
    /\ calls < MaxCalls
    /\ \E body \in RecognizeBodies :
        LET r == RecognizePOST(body, users)
        IN  /\ sessions' = IF r.session # Null
                           THEN createSession(sessions, r.session.userId, r.session.confidence)
                           ELSE sessions
            /\ last' = [op |-> "recognize", body |-> body, response |-> r]
    /\ calls' = calls + 1
    /\ UNCHANGED <<library, detector, inflight, users, page>>

\* a client posts body to /api/users and the handler runs to its response
PostUsers ==
    /\ calls < MaxCalls
    /\ \E body \in UsersBodies :
        LET r == UsersPOST(body, users)
        IN  /\ users' = IF r.created # Null THEN Append(users, r.created) ELSE users
            /\ last' = [op |-> "users", body |-> body, response |-> r]
    /\ calls' = calls + 1
    /\ UNCHANGED <<library, detector, inflight, sessions, page>>

\* a POST /api/users runs up to its await of createUser: it answers 400 or
\* 409 there, or it has passed the email check and waits to create
UsersPostArrives ==
    /\ calls < MaxCalls
    /\ \E body \in ConcurrentBodies :
        LET r == UsersCheck(body, users)
        IN  IF r # Null
            THEN /\ last' = [op |-> "users", body |-> body, response |-> r]
                 /\ UNCHANGED inflight
            ELSE /\ inflight' = Append(inflight, body)
                 /\ UNCHANGED last
    /\ calls' = calls + 1
    /\ UNCHANGED <<library, detector, users, sessions, page>>

\* a POST /api/users that passed the email check runs createUser on the rows
\* that are stored by now, and answers
UsersPostCreates ==
    /\ \E k \in 1..Len(inflight) :
        LET body == inflight[k]
            r == UsersCreate(body, users)
        IN  /\ users' = IF r.created # Null THEN Append(users, r.created) ELSE users
            /\ last' = [op |-> "users", body |-> body, response |-> r]
            /\ inflight' = [i \in 1..(Len(inflight) - 1) |->
                                IF i < k THEN inflight[i] ELSE inflight[i + 1]]
    /\ UNCHANGED <<library, detector, calls, sessions, page>>

\* the browser matches a descriptor against the stored ones with findBestMatch
CallFindBestMatch ==
    /\ calls < MaxCalls
    /\ \E inputDescriptor \in QueryDescriptors, threshold \in ThresholdInputs :
        LET list == getAllFaceDescriptors(users)
            knownDescriptors ==
                [i \in 1..Len(list) |->
                    [list[i] EXCEPT !.descriptor = Float32ArrayOf(@)]]
        IN  last' = [op |-> "findBestMatch",
                     inputDescriptor |-> Float32ArrayOf(inputDescriptor),
                     knownDescriptors |-> knownDescriptors,
                     threshold |-> threshold,
                     result |-> findBestMatch(Float32ArrayOf(inputDescriptor),
                                              knownDescriptors, threshold)]
    /\ calls' = calls + 1
    /\ UNCHANGED <<library, detector, inflight, users, sessions, page>>

\* server code calls findUserByFaceDescriptor(inputDescriptor, threshold = 0.6)
CallFindUserByFaceDescriptor ==
    /\ calls < MaxCalls
    /\ \E inputDescriptor \in LookupDescriptors, threshold \in LookupThresholds :
        LET found == findUserByFaceDescriptor(users, inputDescriptor,
                        IF threshold.kind = "undefined"
                        THEN Num(DefaultThreshold) ELSE threshold)
        IN  last' = [op |-> "findUserByFaceDescriptor",
                     inputDescriptor |-> inputDescriptor,
                     threshold |-> threshold,
                     result |-> found.user,
                     distanceCalls |-> found.distanceCalls]
    /\ calls' = calls + 1
    /\ UNCHANGED <<library, detector, inflight, users, sessions, page>>

\* calculateEuclideanDistance is called with desc1, desc2 and, for comparison,
\* with desc2, desc1
CallCalculateEuclideanDistance ==
    /\ calls < MaxCalls
    /\ \E desc1 \in DistanceInputs, desc2 \in DistanceInputs :
        last' = [op |-> "calculateEuclideanDistance",
                 desc1 |-> desc1,
                 desc2 |-> desc2,
                 result |-> calculateEuclideanDistance(desc1, desc2),
                 swapped |-> calculateEuclideanDistance(desc2, desc1)]
    /\ calls' = calls + 1
    /\ UNCHANGED <<library, detector, inflight, users, sessions, page>>

\* ------------------------------------------- training page: actions
PageInit ==
    /\ currentStep = "form"
    /\ formData = [name |-> "", email |-> ""]
    /\ photos = <<>>
    /\ currentPhotoIndex = 0
    /\ isCapturing = FALSE
    /\ captureCountdown = 0
    /\ isProcessing = FALSE
    /\ modelsLoaded = FALSE
    /\ error = ""
    /\ success = ""
    /\ loading = TRUE
    /\ captureIndex = 0
    /\ interval = Null
    /\ image = Null
    /\ request = Null
    /\ effectDue = FALSE

\* the visitor edits the name field
ChangeName ==
    /\ currentStep = "form" /\ ~effectDue
    /\ \E value \in NameInputs :
        /\ value # formData.name
        /\ formData' = [formData EXCEPT !.name = value]
    /\ effectDue' = TRUE
    /\ UNCHANGED <<library, detector, server, currentStep, photos, currentPhotoIndex, isCapturing,
                   captureCountdown, isProcessing, modelsLoaded, error, success,
                   loading, captureIndex, interval, image, request>>

\* the visitor edits the email field
ChangeEmail ==
    /\ currentStep = "form" /\ ~effectDue
    /\ \E value \in EmailInputs :
        /\ value # formData.email
        /\ formData' = [formData EXCEPT !.email = value]
    /\ effectDue' = TRUE
    /\ UNCHANGED <<library, detector, server, currentStep, photos, currentPhotoIndex, isCapturing,
                   captureCountdown, isProcessing, modelsLoaded, error, success,
                   loading, captureIndex, interval, image, request>>

\* handleFormSubmit that tests the name without trimming it
handleFormSubmitNoTrim ==
    /\ currentStep = "form" /\ ~effectDue
    /\ formData.name # ""
    /\ error' = ""
    /\ currentStep' = "capture"
    /\ effectDue' = TRUE
    /\ UNCHANGED <<library, detector, server, formData, photos, currentPhotoIndex, isCapturing,
                   captureCountdown, isProcessing, modelsLoaded, success,
                   loading, captureIndex, interval, image, request>>

\* the form is submitted; the browser does not submit an empty required field
handleFormSubmit ==
    /\ currentStep = "form" /\ ~effectDue
    /\ formData.name # ""
    /\ IF Trim(formData.name) = ""
       THEN /\ error' = "Name is required"
            /\ UNCHANGED <<currentStep, effectDue>>
       ELSE /\ error' = ""
            /\ currentStep' = "capture"
            /\ effectDue' = TRUE
    /\ UNCHANGED <<library, detector, server, formData, photos, currentPhotoIndex, isCapturing,
                   captureCountdown, isProcessing, modelsLoaded, success,
                   loading, captureIndex, interval, image, request>>

\* loadModels: the three networks are loaded; startPhotoCapture is memoised
\* anew (modelsLoaded is one of its dependencies)
ModelsLoaded ==
    /\ loading /\ ~effectDue
    /\ loading' = FALSE
    /\ modelsLoaded' = TRUE
    /\ captureIndex' = currentPhotoIndex
    /\ UNCHANGED <<library, detector, server, currentStep, formData, photos, currentPhotoIndex,
                   isCapturing, captureCountdown, isProcessing, error, success,
                   interval, image, request, effectDue>>

\* loadModels: a network fails to load
ModelsFailed ==
    /\ loading /\ ~effectDue
    /\ loading' = FALSE
    /\ error' = "Failed to load face recognition models"
    /\ UNCHANGED <<library, detector, server, currentStep, formData, photos, currentPhotoIndex,
                   isCapturing, captureCountdown, isProcessing, modelsLoaded,
                   success, captureIndex, interval, image, request, effectDue>>

\* startPhotoCapture without its first line
startPhotoCaptureUnguarded ==
    /\ currentStep = "capture" /\ ~effectDue
    /\ isCapturing' = TRUE
    /\ captureCountdown' = CAPTURE_DELAY
    /\ interval' = Closure(captureIndex)
    /\ captureIndex' = currentPhotoIndex
    /\ UNCHANGED <<library, detector, server, currentStep, formData, photos, currentPhotoIndex,
                   isProcessing, modelsLoaded, error, success, loading, image,
                   request, effectDue>>

\* the capture button is clicked: the interval keeps the capturePhoto of the
\* startPhotoCapture that was clicked; the change of isCapturing memoises a
\* new startPhotoCapture
startPhotoCapture ==
    /\ currentStep = "capture" /\ ~effectDue
    /\ ~(~modelsLoaded \/ isCapturing)
    /\ isCapturing' = TRUE
    /\ captureCountdown' = CAPTURE_DELAY
    /\ interval' = Closure(captureIndex)
    /\ captureIndex' = currentPhotoIndex
    /\ UNCHANGED <<library, detector, server, currentStep, formData, photos, currentPhotoIndex,
                   isProcessing, modelsLoaded, error, success, loading, image,
                   request, effectDue>>

\* the interval fires: the countdown goes down, and at its end the interval
\* is cleared and capturePhoto runs up to img.src = imageSrc
CountdownTick ==
    /\ interval # Null /\ ~effectDue
    /\ \E imageSrc \in Screenshots :
        IF captureCountdown <= 1
        THEN /\ captureCountdown' = 0
             /\ interval' = Null
             /\ IF webcamRef = Null
                THEN UNCHANGED <<error, isCapturing, captureIndex, image>>
                ELSE IF ~Truthy(imageSrc)
                THEN /\ error' = "Failed to capture image"
                     /\ isCapturing' = FALSE
                     /\ captureIndex' = currentPhotoIndex
                     /\ image' = image
                ELSE /\ image' = interval
                     /\ UNCHANGED <<error, isCapturing, captureIndex>>
        ELSE /\ captureCountdown' = captureCountdown - 1
             /\ UNCHANGED <<interval, error, isCapturing, captureIndex, image>>
    /\ UNCHANGED <<library, detector, server, currentStep, formData, photos, currentPhotoIndex,
                   isProcessing, modelsLoaded, success, loading, request, effectDue>>

\* img.onload: the face is looked for and the photo is added; the step is
\* decided on the currentPhotoIndex of the closure
ImageLoaded ==
    /\ image # Null /\ ~effectDue
    /\ \E descriptor \in Detections :
        photos' = Append(photos, [faceDetected |-> descriptor # Null,
                                  descriptor |-> OrElse(descriptor, Undefined)])
    /\ currentPhotoIndex' = currentPhotoIndex + 1
    /\ isCapturing' = FALSE
    /\ captureIndex' = currentPhotoIndex + 1
    /\ currentStep' = IF image.currentPhotoIndex + 1 >= TARGET_PHOTOS
                      THEN "processing" ELSE currentStep
    /\ image' = Null
    /\ effectDue' = TRUE
    /\ UNCHANGED <<library, detector, server, formData, captureCountdown, isProcessing, modelsLoaded,
                   error, success, loading, interval, request>>

\* the screenshot fails to load: img.onerror is not set, so nothing runs
ImageError ==
    /\ image # Null /\ ~effectDue
    /\ image' = Null
    /\ UNCHANGED <<library, detector, server, currentStep, formData, photos, currentPhotoIndex,
                   isCapturing, captureCountdown, isProcessing, modelsLoaded,
                   error, success, loading, captureIndex, interval, request,
                   effectDue>>

\* processTrainingData up to its first await
processTrainingData ==
    LET validPhotos == ValidPhotos(photos)
    IN  /\ calls' = calls + 1
        /\ last' = [op |-> "processTrainingData", validPhotos |-> Len(validPhotos)]
        /\ IF TooFewPhotos(validPhotos)
           THEN /\ error' = TooFewMessage(validPhotos)
                /\ isProcessing' = FALSE
                /\ request' = request
           ELSE /\ error' = ""
                /\ isProcessing' = TRUE
                /\ request' = [kind |-> "request",
                               body |-> RequestBody(formData, validPhotos),
                               name |-> formData.name,
                               count |-> Len(validPhotos)]

\* the auto-process effect without its dependency array: it is due again
\* after the render that its own state updates cause
AutoProcessEffectEveryRender ==
    /\ effectDue
    /\ effectDue' = (currentStep = "processing" /\ Len(photos) > 0)
    /\ IF currentStep = "processing" /\ Len(photos) > 0
       THEN processTrainingData
       ELSE UNCHANGED <<calls, last, error, isProcessing, request>>
    /\ UNCHANGED <<library, detector, inflight, users, sessions, currentStep, formData, photos, currentPhotoIndex,
                   isCapturing, captureCountdown, modelsLoaded, success, loading,
                   captureIndex, interval, image>>

\* the effect on [currentStep, photos, processTrainingData], run after a
\* render in which one of them changed
AutoProcessEffect ==
    /\ effectDue
    /\ effectDue' = FALSE
    /\ IF currentStep = "processing" /\ Len(photos) > 0
       THEN processTrainingData
       ELSE UNCHANGED <<calls, last, error, isProcessing, request>>
    /\ UNCHANGED <<library, detector, inflight, users, sessions, currentStep, formData, photos, currentPhotoIndex,
                   isCapturing, captureCountdown, modelsLoaded, success, loading,
                   captureIndex, interval, image>>

\* the request reaches POST /api/users and its response comes back
FetchResponds ==
    /\ request # Null /\ ~effectDue
    /\ LET result == UsersPOST(request.body, users)
       IN  /\ users' = IF result.created # Null THEN Append(users, result.created)
                       ELSE users
           /\ IF result.status = 201
              THEN /\ success' = SuccessMessage(request.name, request.count)
                   /\ currentStep' = "complete"
                   /\ effectDue' = TRUE
                   /\ error' = error
              ELSE /\ error' = result.error
                   /\ UNCHANGED <<success, currentStep, effectDue>>
    /\ isProcessing' = FALSE
    /\ request' = Null
    /\ UNCHANGED <<library, detector, inflight, sessions, last, calls, formData, photos, currentPhotoIndex,
                   isCapturing, captureCountdown, modelsLoaded, loading,
                   captureIndex, interval, image>>

\* the request fails before it is answered
FetchFails ==
    /\ request # Null /\ ~effectDue
    /\ error' = "Failed to process training data"
    /\ isProcessing' = FALSE
    /\ request' = Null
    /\ UNCHANGED <<library, detector, server, currentStep, formData, photos, currentPhotoIndex,
                   isCapturing, captureCountdown, modelsLoaded, success, loading,
                   captureIndex, interval, image, effectDue>>

\* "Train Another User" on the complete step
resetTraining ==
    /\ currentStep = "complete" /\ ~effectDue
    /\ calls < MaxPasses
    /\ formData' = [name |-> "", email |-> ""]
    /\ photos' = <<>>
    /\ currentPhotoIndex' = 0
    /\ currentStep' = "form"
    /\ error' = ""
    /\ success' = ""
    /\ effectDue' = TRUE
    /\ last' = [op |-> "resetTraining"]
    /\ UNCHANGED <<library, detector, users, sessions, calls, inflight, isCapturing,
                   captureCountdown, isProcessing, modelsLoaded, loading,
                   captureIndex, interval, image, request>>

\* ------------------------------------------------ model loaders
\* loadFaceApiModels (lib/face-recognition) and loadBasicFaceModel
\* (lib/face-recognition-basic): the same code over separate module variables
Loaders == {"loadFaceApiModels", "loadBasicFaceModel"}

\* the k-th promise made by loadModels() / loadBasicModel()
Promise(k) == [kind |-> "promise", id |-> k]

\* Promise.resolve()
Resolved == [kind |-> "resolved"]

\* AlreadyLoading that never sees a load in progress
NeverLoading(promise) == FALSE

\* if (modelLoadingPromise)
AlreadyLoading(promise) == promise # Null

LibraryInit ==
    /\ modelLoadingPromise = [m \in Loaders |-> Null]
    /\ loaderModelsLoaded = [m \in Loaders |-> FALSE]
    /\ promises = [m \in Loaders |-> <<>>]
    /\ loadCalls = [m \in Loaders |-> <<>>]

\* a call of the loader m, up to its return or its await
CallLoader ==
    \E m \in Loaders :
        /\ Len(loadCalls[m]) < MaxLoadCalls
        /\ IF AlreadyLoading(modelLoadingPromise[m])
           THEN /\ loadCalls' = [loadCalls EXCEPT ![m] =
                        Append(@, [pc |-> "returned",
                                   promise |-> modelLoadingPromise[m]])]
                /\ UNCHANGED <<modelLoadingPromise, promises>>
           ELSE IF loaderModelsLoaded[m]
           THEN /\ loadCalls' = [loadCalls EXCEPT ![m] =
                        Append(@, [pc |-> "returned", promise |-> Resolved])]
                /\ UNCHANGED <<modelLoadingPromise, promises>>
           ELSE /\ promises' = [promises EXCEPT ![m] = Append(@, "pending")]
                /\ modelLoadingPromise' =
                        [modelLoadingPromise EXCEPT ![m] = Promise(Len(promises[m]) + 1)]
                /\ loadCalls' = [loadCalls EXCEPT ![m] =
                        Append(@, [pc |-> "awaiting",
                                   promise |-> Promise(Len(promises[m]) + 1)])]
        /\ UNCHANGED <<detector, server, page, loaderModelsLoaded>>

\* loadModels() / loadBasicModel() of the loader m ends: the networks are
\* loaded, or loading them failed
LoadSettles ==
    \E m \in Loaders, outcome \in {"fulfilled", "rejected"} :
        /\ \E k \in 1..Len(promises[m]) :
            /\ promises[m][k] = "pending"
            /\ promises' = [promises EXCEPT ![m][k] = outcome]
        /\ UNCHANGED <<detector, server, page, modelLoadingPromise, loaderModelsLoaded, loadCalls>>

\* the call that awaits a settled promise goes on after its await
LoadResumes ==
    \E m \in Loaders :
        /\ \E c \in 1..Len(loadCalls[m]) :
            /\ loadCalls[m][c].pc = "awaiting"
            /\ promises[m][loadCalls[m][c].promise.id] # "pending"
            /\ IF promises[m][loadCalls[m][c].promise.id] = "fulfilled"
               THEN /\ loaderModelsLoaded' = [loaderModelsLoaded EXCEPT ![m] = TRUE]
                    /\ loadCalls' = [loadCalls EXCEPT ![m][c] =
                            [pc |-> "returned", promise |-> modelLoadingPromise[m]]]
                    /\ UNCHANGED modelLoadingPromise
               ELSE /\ modelLoadingPromise' = [modelLoadingPromise EXCEPT ![m] = Null]
                    /\ loadCalls' = [loadCalls EXCEPT ![m][c].pc = "threw"]
                    /\ UNCHANGED loaderModelsLoaded
        /\ UNCHANGED <<detector, server, page, promises>>

\* areModelsLoaded()
areModelsLoaded == loaderModelsLoaded["loadFaceApiModels"]

\* getModelLoadingStatus()
getModelLoadingStatus ==
    [isLoading |-> modelLoadingPromise["loadFaceApiModels"] # Null
                     /\ ~loaderModelsLoaded["loadFaceApiModels"],
     isLoaded |-> loaderModelsLoaded["loadFaceApiModels"],
     error |-> FALSE]

\* reactions to a promise that run in no particular order
ReactionsInAnyOrder(m, promise) == TRUE

\* the reactions to a promise run in the order in which they were added, and
\* the await of the call that made the promise added its own first: a call
\* that returned the promise settles after that call has gone on
ReactionsRun(m, promise) ==
    \A c \in 1..Len(loadCalls[m]) :
        ~(loadCalls[m][c].pc = "awaiting" /\ loadCalls[m][c].promise = promise)

\* the promise of a call that has returned settles like the promise it
\* returned, and the caller goes on after its own await: loaded is what the
\* loaded flag of the library holds at that moment
CallSettles ==
    \E m \in Loaders :
        /\ \E c \in 1..Len(loadCalls[m]) :
            LET promise == loadCalls[m][c].promise
                outcome == IF promise = Resolved THEN "fulfilled"
                           ELSE promises[m][promise.id]
            IN  /\ loadCalls[m][c].pc = "returned"
                /\ outcome # "pending"
                /\ ReactionsRun(m, promise)
                /\ loadCalls' = [loadCalls EXCEPT ![m][c] =
                        IF outcome = "fulfilled"
                        THEN [pc |-> "resolved", promise |-> promise,
                              loaded |-> loaderModelsLoaded[m]]
                        ELSE [pc |-> "rejected", promise |-> promise,
                              loaded |-> loaderModelsLoaded[m]]]
        /\ UNCHANGED <<detector, server, page, modelLoadingPromise, loaderModelsLoaded, promises>>

\* ------------------------------------------- FaceDetectionComponent
\* webcamRef.current: the Webcam is rendered while the camera is active and
\* permitted
detectorWebcamRef ==
    IF mounted /\ state.isActive /\ state.hasPermission THEN "webcam" ELSE "null"

\* canvasRef.current: the overlay canvas is rendered under canShowFaceDetection
canvasRef ==
    IF mounted /\ state.isActive /\ state.hasPermission /\ state.modelsLoaded
    THEN "canvas" ELSE "null"

\* the value that setInterval returns for the timer t
TimerId(t) == [kind |-> "timer", id |-> t.id]

\* the timers that are left after clearInterval(id)
clearInterval(scheduled, id) == {t \in scheduled : TimerId(t) # id}

\* setInterval(performFaceDetection, detectionInterval): the timer keeps the
\* performFaceDetection of this render, which closes over state.modelsLoaded
setInterval(scheduled) ==
    [id |-> CHOOSE n \in 1..(Cardinality(scheduled) + 1) :
                \A t \in scheduled : t.id # n,
     modelsLoaded |-> state.modelsLoaded]

\* the await of detectFaces throws only when detectFaces itself throws
DetectionThrowsInDetectFaces(outcome) == outcome = "throws"

\* the try block of performFaceDetection throws after its await: detectFaces
\* threw, or canvasRef.current is null when canvas.width is assigned
DetectionThrows(outcome) == outcome = "throws" \/ canvasRef = "null"

\* the component after its first render and its mount effects:
\* initializeModels waits for loadFaceApiModels and requestCameraPermission
\* for getUserMedia
DetectorInit ==
    /\ mounted = TRUE
    /\ state = [isActive |-> FALSE, hasPermission |-> FALSE,
                permissionError |-> "", isLoading |-> TRUE,
                isDetecting |-> FALSE, detectedFaces |-> 0,
                detectionError |-> "", modelsLoaded |-> FALSE]
    /\ detectionIntervalRef = Null
    /\ timers = {}
    /\ pending = [models |-> TRUE, permission |-> 1, detections |-> 0]
    /\ detectorEffectDue = "no"

\* initializeModels: loadFaceApiModels resolved or threw
InitializeModelsSettles ==
    /\ pending.models /\ detectorEffectDue = "no"
    /\ pending' = [pending EXCEPT !.models = FALSE]
    /\ \E loaded \in BOOLEAN :
        IF ~mounted
        THEN UNCHANGED <<state, detectorEffectDue>>
        ELSE IF loaded
        THEN /\ state' = [state EXCEPT !.modelsLoaded = TRUE,
                                       !.isLoading = FALSE,
                                       !.detectionError = ""]
             /\ detectorEffectDue' = "cleanup"
        ELSE /\ state' = [state EXCEPT !.modelsLoaded = FALSE,
                                       !.isLoading = FALSE,
                                       !.detectionError = "Failed to load AI models"]
             /\ UNCHANGED detectorEffectDue
    /\ UNCHANGED <<library, server, page, mounted, detectionIntervalRef, timers>>

\* requestCameraPermission after its await: getUserMedia resolved or threw
PermissionSettles ==
    /\ pending.permission > 0 /\ detectorEffectDue = "no"
    /\ pending' = [pending EXCEPT !.permission = @ - 1]
    /\ \E granted \in BOOLEAN :
        IF ~mounted
        THEN UNCHANGED state
        ELSE IF granted
        THEN state' = [state EXCEPT !.hasPermission = TRUE,
                                    !.isLoading = FALSE,
                                    !.permissionError = ""]
        ELSE state' = [state EXCEPT !.hasPermission = FALSE,
                                    !.isLoading = FALSE,
                                    !.permissionError = "Camera access denied"]
    /\ UNCHANGED <<library, server, page, mounted, detectionIntervalRef, timers,
                   detectorEffectDue>>

\* "Try Again" under the permission error: requestCameraPermission up to its
\* await
requestCameraPermission ==
    /\ mounted /\ detectorEffectDue = "no"
    /\ ~(state.isActive /\ state.hasPermission)
    /\ ~state.isLoading /\ state.permissionError # ""
    /\ pending.permission < MaxPending
    /\ state' = [state EXCEPT !.isLoading = TRUE, !.permissionError = ""]
    /\ pending' = [pending EXCEPT !.permission = @ + 1]
    /\ UNCHANGED <<library, server, page, mounted, detectionIntervalRef, timers,
                   detectorEffectDue>>

\* the camera button: without permission the call asks for it and returns on
\* the state.hasPermission of its render; with the camera on it stops the
\* detection and turns the camera off
toggleCamera ==
    /\ mounted /\ detectorEffectDue = "no"
    /\ ~state.isLoading
    /\ IF ~state.isActive
       THEN IF ~state.hasPermission
            THEN /\ pending.permission < MaxPending
                 /\ state' = [state EXCEPT !.isLoading = TRUE,
                                           !.permissionError = ""]
                 /\ pending' = [pending EXCEPT !.permission = @ + 1]
                 /\ UNCHANGED <<detectionIntervalRef, timers, detectorEffectDue>>
            ELSE /\ state' = [state EXCEPT !.isActive = TRUE]
                 /\ detectorEffectDue' = "cleanup"
                 /\ UNCHANGED <<detectionIntervalRef, timers, pending>>
       ELSE /\ timers' = IF detectionIntervalRef # Null
                         THEN clearInterval(timers, detectionIntervalRef)
                         ELSE timers
            /\ detectionIntervalRef' = Null
            /\ state' = [state EXCEPT !.isActive = FALSE,
                                      !.isDetecting = FALSE,
                                      !.detectedFaces = 0]
            /\ detectorEffectDue' = "cleanup"
            /\ UNCHANGED pending
    /\ UNCHANGED <<library, server, page, mounted>>

\* toggleDetection: stops the detection that runs, or starts one when the
\* camera is active and the models are loaded
toggleDetection ==
    /\ mounted /\ detectorEffectDue = "no"
    /\ IF state.isDetecting \/ detectionIntervalRef # Null
       THEN /\ timers' = IF detectionIntervalRef # Null
                         THEN clearInterval(timers, detectionIntervalRef)
                         ELSE timers
            /\ detectionIntervalRef' = Null
            /\ state' = [state EXCEPT !.isDetecting = FALSE]
       ELSE /\ state.isActive /\ state.modelsLoaded
            /\ detectionIntervalRef' = TimerId(setInterval(timers))
            /\ timers' = timers \cup {setInterval(timers)}
            /\ UNCHANGED state
    /\ UNCHANGED <<library, server, page, mounted, pending, detectorEffectDue>>

\* onUserMediaError of the Webcam
onUserMediaError ==
    /\ detectorWebcamRef # "null" /\ detectorEffectDue = "no"
    /\ state' = [state EXCEPT !.permissionError = "Failed to access camera",
                              !.isActive = FALSE]
    /\ detectorEffectDue' = "cleanup"
    /\ UNCHANGED <<library, server, page, mounted, detectionIntervalRef, timers,
                   pending>>

\* the cleanup of the auto-start effect that returns an empty function
EffectCleanupNothing ==
    /\ detectorEffectDue = "cleanup"
    /\ detectorEffectDue' = "effect"
    /\ UNCHANGED <<library, server, page, mounted, state, pending,
                   detectionIntervalRef, timers>>

\* the cleanup of the auto-start effect, run when a dependency changed
EffectCleanup ==
    /\ detectorEffectDue = "cleanup"
    /\ timers' = IF detectionIntervalRef # Null
                 THEN clearInterval(timers, detectionIntervalRef)
                 ELSE timers
    /\ detectionIntervalRef' = Null
    /\ detectorEffectDue' = "effect"
    /\ UNCHANGED <<library, server, page, mounted, state, pending>>

\* the auto-start effect, run after its cleanup
AutoStartEffect ==
    /\ detectorEffectDue = "effect"
    /\ IF state.isActive /\ state.modelsLoaded /\ detectionIntervalRef = Null
       THEN /\ detectionIntervalRef' = TimerId(setInterval(timers))
            /\ timers' = timers \cup {setInterval(timers)}
       ELSE UNCHANGED <<detectionIntervalRef, timers>>
    /\ detectorEffectDue' = "no"
    /\ UNCHANGED <<library, server, page, mounted, state, pending>>

\* a detection timer fires: performFaceDetection up to its await
IntervalTick ==
    /\ detectorEffectDue = "no"
    /\ \E t \in timers, video \in {"not ready", "no dimensions", "ready"} :
        IF detectorWebcamRef = "null" \/ canvasRef = "null" \/ ~t.modelsLoaded
        THEN UNCHANGED <<state, pending>>
        ELSE IF video = "not ready"
        THEN UNCHANGED <<state, pending>>
        ELSE IF video = "no dimensions"
        THEN /\ state' = [state EXCEPT !.isDetecting = FALSE,
                                       !.detectionError = ""]
             /\ UNCHANGED pending
        ELSE /\ pending.detections < MaxPending
             /\ state' = [state EXCEPT !.isDetecting = TRUE,
                                       !.detectionError = ""]
             /\ pending' = [pending EXCEPT !.detections = @ + 1]
    /\ UNCHANGED <<library, server, page, mounted, detectionIntervalRef, timers,
                   detectorEffectDue>>

\* performFaceDetection after its await of detectFaces: the faces are drawn
\* on the canvas and kept, or the catch reports the failure
DetectionReturns ==
    /\ pending.detections > 0 /\ detectorEffectDue = "no"
    /\ pending' = [pending EXCEPT !.detections = @ - 1]
    /\ \E outcome \in {"throws", "no face", "one face"} :
        IF ~mounted
        THEN UNCHANGED state
        ELSE IF DetectionThrows(outcome)
        THEN state' = [state EXCEPT !.isDetecting = FALSE,
                                    !.detectionError = "Face detection failed"]
        ELSE state' = [state EXCEPT !.isDetecting = FALSE,
                                    !.detectedFaces =
                                        IF outcome = "one face" THEN 1 ELSE 0]
    /\ UNCHANGED <<library, server, page, mounted, detectionIntervalRef, timers,
                   detectorEffectDue>>

\* the component is unmounted: the cleanup of the auto-start effect runs
Unmount ==
    /\ mounted /\ detectorEffectDue = "no"
    /\ mounted' = FALSE
    /\ timers' = IF detectionIntervalRef # Null
                 THEN clearInterval(timers, detectionIntervalRef)
                 ELSE timers
    /\ detectionIntervalRef' = Null
    /\ UNCHANGED <<library, server, page, state, pending, detectorEffectDue>>

\* the page right after the img.onload of the eighth photo of the first pass,
\* before the auto-process effect has run
AggregateInit ==
    /\ ServerInit
    /\ LibraryInit
    /\ DetectorInit
    /\ currentStep = "processing"
    /\ formData = [name |-> "Ann", email |-> ""]
    /\ photos \in SamplePhotoLists
    /\ currentPhotoIndex = TARGET_PHOTOS
    /\ isCapturing = FALSE
    /\ captureCountdown = 0
    /\ isProcessing = FALSE
    /\ modelsLoaded = TRUE
    /\ error = ""
    /\ success = ""
    /\ loading = FALSE
    /\ captureIndex = TARGET_PHOTOS
    /\ interval = Null
    /\ image = Null
    /\ request = Null
    /\ effectDue = TRUE

\* ---------------------------------------------------- specifications
Init == ServerInit /\ PageInit /\ LibraryInit /\ DetectorInit

Next == PostRecognize \/ PostUsers \/ CallFindBestMatch

\* the store under the requests of any clients
Spec == Init /\ [][Next]_vars

\* one visitor on the training page, with the store behind it
TrainNext ==
    \/ ChangeName \/ ChangeEmail \/ handleFormSubmit
    \/ ModelsLoaded \/ ModelsFailed
    \/ startPhotoCapture \/ CountdownTick \/ ImageLoaded
    \/ AutoProcessEffect \/ FetchResponds \/ FetchFails
    \/ resetTraining

TrainSpec == Init /\ [][TrainNext]_vars

\* the training page with a screenshot that may fail to load, where the
\* browser does fire the timer, does end the load of an image one way or the
\* other, and React does run the effects that are due
CaptureNext == TrainNext \/ ImageError

CaptureSpec ==
    /\ Init
    /\ [][CaptureNext]_vars
    /\ WF_vars(CountdownTick)
    /\ WF_vars(ImageLoaded \/ ImageError)
    /\ WF_vars(AutoProcessEffect)

\* findUserByFaceDescriptor called directly on the users that were registered
LookupNext == PostUsers \/ CallFindUserByFaceDescriptor

LookupSpec == Init /\ [][LookupNext]_vars

\* the callers of the two model loaders
LoaderNext == CallLoader \/ LoadSettles \/ LoadResumes

LoaderSpec == Init /\ [][LoaderNext]_vars

\* the callers of the two model loaders, up to the moment each of them goes
\* on after its await of the loader
ResolveNext == CallLoader \/ LoadSettles \/ LoadResumes \/ CallSettles

ResolveSpec == Init /\ [][ResolveNext]_vars

\* FaceDetectionComponent from its mount to its unmount
DetectorNext ==
    \/ InitializeModelsSettles \/ PermissionSettles
    \/ requestCameraPermission \/ toggleCamera \/ toggleDetection
    \/ onUserMediaError
    \/ EffectCleanup \/ AutoStartEffect
    \/ IntervalTick \/ DetectionReturns
    \/ Unmount

DetectorSpec == Init /\ [][DetectorNext]_vars

\* calculateEuclideanDistance on the pairs of DistanceInputs
DistanceNext == CallCalculateEuclideanDistance

DistanceSpec == Init /\ [][DistanceNext]_vars

\* POST /api/users requests that interleave at the awaits of the handler
UsersNext == UsersPostArrives \/ UsersPostCreates

UsersSpec == Init /\ [][UsersNext]_vars

\* processTrainingData on the photo lists of SamplePhotoLists
AggregateNext == AutoProcessEffect \/ FetchResponds \/ FetchFails

AggregateSpec == AggregateInit /\ [][AggregateNext]_vars

\* =========================================================== claims
\* The catalog a recognition scanned is users: no step of Spec that runs a
\* recognition changes users, so it is read from the state the call left.

\* the last call was a POST /api/recognize that got as far as the recognition
RecognitionRan == last.op = "recognize" /\ last.response.reads > 0

\* the last call was a findBestMatch that returned (a match or null)
BestMatchRan == last.op = "findBestMatch" /\ last.result.kind # "throw"

\* distance of the i-th stored user to the query of the last POST /api/recognize
QueryDistance(i) ==
    calculateEuclideanDistance(last.body.faceDescriptor, users[i].faceDescriptor)

\* distance of the i-th known descriptor to the input of the last findBestMatch
KnownDistance(i) ==
    compareFaceDescriptors(last.inputDescriptor, last.knownDescriptors[i].descriptor)

\* the threshold the last findBestMatch ran with
KnownThreshold ==
    IF last.threshold.kind = "undefined" THEN Num(DefaultThreshold) ELSE last.threshold

\* position in users of the row the last POST /api/recognize matched
MatchedRow == CHOOSE i \in 1..Len(users) : users[i].id = last.response.data.userId

\* position in knownDescriptors of the entry the last findBestMatch returned
MatchedKnown ==
    CHOOSE i \in 1..Len(last.knownDescriptors) :
        last.knownDescriptors[i].userId = last.result.userId

Recognized == RecognitionRan /\ last.response.recognized

BestMatchFound == BestMatchRan /\ last.result.kind = "result"

\* a descriptor that is not an array of DescriptorLength numbers
BadShapeOrNonNumber(d) ==
    \/ d.kind # "array"
    \/ d.len # DescriptorLength
    \/ \E i \in 1..Len(d.vals) : d.vals[i].kind # "number"

\* every stored descriptor is an array of DescriptorLength numbers
WellFormedCatalog ==
    \A i \in 1..Len(users) :
        ~BadShapeOrNonNumber(users[i].faceDescriptor)

\* C1: neither findUserByFaceDescriptor nor findBestMatch returns a profile
\* whose distance to the query is not strictly less than the threshold the
\* function ran with; a candidate at exactly the threshold is rejected.
C1_StrictThreshold ==
    /\ Recognized =>
         /\ \E i \in 1..Len(users) : users[i].id = last.response.data.userId
         /\ LessThan(QueryDistance(MatchedRow), last.response.threshold)
    /\ BestMatchFound =>
         /\ \E i \in 1..Len(last.knownDescriptors) :
                last.knownDescriptors[i].userId = last.result.userId
         /\ LessThan(KnownDistance(MatchedKnown), KnownThreshold)

\* C1 witness: a recognition ran on a catalog holding a candidate exactly at
\* the threshold and another one below it, and returned the one below.
C1_Witness ==
    /\ Recognized
    /\ \E i \in 1..Len(users) : QueryDistance(i) = last.response.threshold
    /\ QueryDistance(MatchedRow) # last.response.threshold

\* C2: when exactly one candidate is below the threshold, recognition returns
\* it; and every returned candidate is at the minimal distance of the catalog.
C2_ReturnsNearest ==
    /\ RecognitionRan =>
         LET below == {i \in 1..Len(users) :
                         LessThan(QueryDistance(i), last.response.threshold)}
         IN  /\ Cardinality(below) = 1 =>
                  /\ last.response.recognized
                  /\ MatchedRow \in below
             /\ last.response.recognized =>
                  \A i \in 1..Len(users) :
                      ~LessThan(QueryDistance(i), QueryDistance(MatchedRow))
    /\ BestMatchRan =>
         LET below == {i \in 1..Len(last.knownDescriptors) :
                         LessThan(KnownDistance(i), KnownThreshold)}
         IN  /\ Cardinality(below) = 1 =>
                  /\ last.result.kind = "result"
                  /\ MatchedKnown \in below
             /\ last.result.kind = "result" =>
                  \A i \in 1..Len(last.knownDescriptors) :
                      ~LessThan(KnownDistance(i), KnownDistance(MatchedKnown))

\* C2 witness: a recognition ran on two candidates, only the second of them
\* below the threshold, and returned the second.
C2_Witness ==
    /\ Recognized
    /\ Len(users) = 2
    /\ ~LessThan(QueryDistance(1), last.response.threshold)
    /\ LessThan(QueryDistance(2), last.response.threshold)
    /\ MatchedRow = 2

\* C3: of several candidates at the same minimal distance below the threshold
\* the earliest scanned is returned: no candidate before the returned one is
\* at the returned one's distance.
C3_FirstOfTies ==
    /\ Recognized =>
         \A j \in 1..(MatchedRow - 1) : QueryDistance(j) # QueryDistance(MatchedRow)
    /\ BestMatchFound =>
         \A j \in 1..(MatchedKnown - 1) : KnownDistance(j) # KnownDistance(MatchedKnown)

\* C3 witness: a recognition ran on two candidates at the same distance below
\* the threshold and returned the first.
C3_Witness ==
    /\ Recognized
    /\ Len(users) = 2
    /\ QueryDistance(1) = QueryDistance(2)
    /\ LessThan(QueryDistance(1), last.response.threshold)
    /\ MatchedRow = 1

\* C4: a recognition over an empty catalog, or over one in which no candidate
\* is below the threshold it ran with, finds nothing, and POST /api/recognize
\* answers 200 with recognized false and data null.
C4_NoMatchIsSuccess ==
    (RecognitionRan
        /\ \A i \in 1..Len(users) :
               ~LessThan(QueryDistance(i), last.response.threshold))
    => /\ last.response.status = 200
       /\ last.response.error = ""
       /\ ~last.response.recognized
       /\ last.response.data = Null
       /\ last.response.session = Null

\* C4 witness: a recognition ran on a catalog of two candidates, both at or
\* beyond the threshold, and the answer was recognized false.
C4_Witness ==
    /\ RecognitionRan
    /\ Len(users) = 2
    /\ \A i \in 1..Len(users) : ~LessThan(QueryDistance(i), last.response.threshold)
    /\ last.response.status = 200
    /\ ~last.response.recognized

\* C5: the confidence of every match is 1 - bestDistance, in the result of
\* findBestMatch and in the response and the session of POST /api/recognize.
C5_ConfidenceIsOneMinusDistance ==
    /\ BestMatchFound =>
         last.result.confidence = OneMinus(KnownDistance(MatchedKnown))
    /\ (Recognized /\ WellFormedCatalog
            /\ ~BadShapeOrNonNumber(last.body.faceDescriptor)) =>
         /\ last.response.data.confidence = OneMinus(QueryDistance(MatchedRow))
         /\ sessions[Len(sessions)].confidence = OneMinus(QueryDistance(MatchedRow))

\* a supplied threshold that lies outside [0, 1]
OutsideUnitInterval(t) == t.kind = "number" /\ (t.val < 0 \/ t.val > One)

\* a faceDescriptor that is missing, no array, or not of DescriptorLength elements
BadShape(d) == d.kind # "array" \/ d.len # DescriptorLength

\* an array of DescriptorLength elements, one of which is not a number
HasNonNumber(d) ==
    /\ d.kind = "array"
    /\ d.len = DescriptorLength
    /\ \E i \in 1..Len(d.vals) : d.vals[i].kind # "number"

\* C6: a POST /api/recognize whose supplied threshold lies outside [0, 1] is
\* answered 400 before any computation: the step reads no row, computes no
\* distance, and leaves users and sessions as they were.
C6_BadThresholdRejected ==
    [][(/\ calls' # calls
        /\ last'.op = "recognize"
        /\ OutsideUnitInterval(last'.body.threshold))
       => /\ last'.response.status = 400
          /\ last'.response.reads = 0
          /\ last'.response.distanceCalls = 0
          /\ sessions' = sessions
          /\ users' = users]_vars

\* C6 witness: a request with a well-shaped descriptor and a threshold outside
\* [0, 1] was answered 400 while the catalog held a user.
C6_Witness ==
    /\ last.op = "recognize"
    /\ ~BadShape(last.body.faceDescriptor)
    /\ OutsideUnitInterval(last.body.threshold)
    /\ last.response.status = 400
    /\ Len(users) > 0

\* C7: a supplied threshold of exactly 0 or exactly 1 is accepted and is the
\* strict bound of the match: whatever is recognized is closer than the
\* supplied threshold (so nothing is recognized with threshold 0).
C7_BoundaryThresholdIsUsed ==
    (/\ last.op = "recognize"
     /\ ~BadShapeOrNonNumber(last.body.faceDescriptor)
     /\ WellFormedCatalog
     /\ last.body.threshold \in {Num(0), Num(One)})
    => /\ last.response.status = 200
       /\ last.response.recognized =>
            LessThan(QueryDistance(MatchedRow), last.body.threshold)

\* C8: both routes answer a request whose faceDescriptor is missing, no array
\* or not of 128 elements with 400, before any store access: the step reads
\* no row and leaves users and sessions as they were.
C8_BadShapeRejected ==
    [][(/\ calls' # calls
        /\ last'.op \in {"recognize", "users"}
        /\ BadShape(last'.body.faceDescriptor))
       => /\ last'.response.status = 400
          /\ last'.response.reads = 0
          /\ users' = users
          /\ sessions' = sessions]_vars

\* C8 witness: POST /api/users, with a name and the email of a stored user but
\* a descriptor of the wrong length, was answered 400.
C8_Witness ==
    /\ last.op = "users"
    /\ Truthy(last.body.name)
    /\ last.body.faceDescriptor.kind = "array"
    /\ last.body.faceDescriptor.len # DescriptorLength
    /\ \E i \in 1..Len(users) : users[i].email = last.body.email
    /\ last.response.status = 400

\* C9: a descriptor of 128 elements that holds a non-number is rejected by
\* both routes: it is answered 400, never stored, never used for a distance.
C9_NonNumberRejected ==
    /\ (last.op \in {"recognize", "users"} /\ HasNonNumber(last.body.faceDescriptor))
       => /\ last.response.status = 400
          /\ last.response.reads = 0
    /\ \A i \in 1..Len(users) : ~HasNonNumber(users[i].faceDescriptor)

\* number of photos of the page that carry a descriptor
ValidCount == Cardinality({k \in DOMAIN photos : photos[k].descriptor # Undefined})

\* C10: processTrainingData with fewer than 3 valid photos sets the error
\* "Need at least 3 photos with detected faces. Got N." with N the number of
\* valid photos, sends no request and leaves the page in the processing step
\* with isProcessing false; with exactly 3 valid photos it sends the request,
\* carrying the aggregate of the 3 valid descriptors and 3 photos.  A request
\* is in flight only for 3 or more valid photos.  (Under TrainSpec calls
\* counts the calls of processTrainingData.)
C10_ThreeValidPhotosNeeded ==
    /\ [](request # Null => ValidCount >= 3)
    /\ [][calls' # calls =>
            /\ ValidCount < 3 =>
                /\ error' = "Need at least 3 photos with detected faces. Got "
                                \o ToString(ValidCount) \o "."
                /\ request' = Null
                /\ users' = users
                /\ ~isProcessing'
                /\ currentStep' = "processing"
            /\ ValidCount = 3 =>
                /\ request' # Null
                /\ request'.body.photos = 3
                /\ request'.body.faceDescriptor.len = 128
                /\ \A k \in DOMAIN photos :
                        photos[k].descriptor # Undefined =>
                            request'.body.faceDescriptor = photos[k].descriptor
                /\ error' = ""
                /\ isProcessing']_vars

\* a first pass was submitted with exactly 3 valid photos and registered the
\* user, and the second pass failed for having fewer than 3
C10_Witness ==
    /\ Len(users) = 1
    /\ users[1].photos = 3
    /\ last.op = "processTrainingData"
    /\ last.validPhotos < 3
    /\ ValidCount = last.validPhotos
    /\ currentStep = "processing"
    /\ request = Null
    /\ error = "Need at least 3 photos with detected faces. Got "
                    \o ToString(ValidCount) \o "."

\* positions of the photos of the page that carry a descriptor
ValidIndices == {k \in DOMAIN photos : photos[k].descriptor # Undefined}

\* the valid descriptors of the page all have the same length
EqualLengths ==
    \A j \in ValidIndices, k \in ValidIndices :
        photos[j].descriptor.len = photos[k].descriptor.len

\* sum of the i-th coordinates of the descriptors at the positions S
RECURSIVE CoordinateSum(_, _)
CoordinateSum(S, i) ==
    IF S = {} THEN 0
    ELSE LET k == CHOOSE k \in S : TRUE
         IN  At(photos[k].descriptor, i).val + CoordinateSum(S \ {k}, i)

\* the number c is sum / n
IsQuotient(c, sum, n) ==
    \/ c.kind = "number" /\ c.val * n = sum
    \/ c.kind = "ratio" /\ c.num * n = sum * c.den

\* C11: when the valid descriptors have the same length, the descriptor that
\* processTrainingData submits has that length, and each of its coordinates is
\* the sum of that coordinate over exactly the valid photos divided by their
\* number.  (The photos do not change while the request is in flight.)
C11_SubmitsTheMean ==
    (request # Null /\ EqualLengths) =>
        /\ \A k \in ValidIndices :
               request.body.faceDescriptor.len = photos[k].descriptor.len
        /\ \A i \in 1..request.body.faceDescriptor.len :
               IsQuotient(At(request.body.faceDescriptor, i),
                          CoordinateSum(ValidIndices, i), ValidCount)

\* C11 witness: a request is in flight for eight photos of which exactly three
\* carry a descriptor, not all the same, and whose mean is no multiple of a
\* tenth in the second coordinate
C11_Witness ==
    /\ request # Null
    /\ EqualLengths
    /\ Len(photos) = 8
    /\ ValidCount = 3
    /\ \E j \in ValidIndices, k \in ValidIndices :
           photos[j].descriptor # photos[k].descriptor
    /\ At(request.body.faceDescriptor, 2).kind = "ratio"

\* C12: when three or more photos carry a descriptor and the descriptors do not
\* all have the same length, processTrainingData fails with an error and
\* submits nothing: no request is in flight, no user is created, and once it
\* has run the page shows an error.
C12_MismatchFails ==
    (ValidCount >= 3 /\ ~EqualLengths) =>
        /\ request = Null
        /\ users = <<>>
        /\ last.op = "processTrainingData" => (error # "" /\ ~isProcessing)

\* the last call was a calculateEuclideanDistance on two arrays of one length
DistanceRan ==
    last.op = "calculateEuclideanDistance" /\ last.desc1.len = last.desc2.len

\* the coordinates in which the two arrays differ
Differing ==
    {i \in 1..last.desc1.len : At(last.desc1, i) # At(last.desc2, i)}

\* sum over the coordinates S of the squared differences of the two arrays
\* (a coordinate outside Differing adds 0)
RECURSIVE SquaredDifferences(_)
SquaredDifferences(S) ==
    IF S = {} THEN 0
    ELSE LET i == CHOOSE i \in S : TRUE
             d == At(last.desc1, i).val - At(last.desc2, i).val
         IN  d * d + SquaredDifferences(S \ {i})

\* C13: on two arrays of the same length calculateEuclideanDistance returns
\* the non-negative root of the sum of the squared coordinate-wise
\* differences, the same for (a, b) as for (b, a), and 0 exactly when the
\* arrays agree in every coordinate.
C13_DistanceIsEuclidean ==
    DistanceRan =>
        /\ last.result.kind \in {"number", "root"}
        /\ last.result.kind = "number" => last.result.val >= 0
        /\ SquareOf(last.result) = SquaredDifferences(Differing)
        /\ last.result = last.swapped
        /\ (last.result = Num(0)) <=> (Differing = {})

\* C13 witness: the distance of (0.4, -0.3, 0, ...) to (0, 0, 0, ...) was
\* computed and is 0.5
C13_Witness ==
    /\ DistanceRan
    /\ last.desc1 # last.desc2
    /\ At(last.desc1, 1) = Num(4)
    /\ At(last.desc1, 2) = Num(-3)
    /\ last.desc2.vals = <<Num(0), Num(0)>>
    /\ last.result = Num(5)

\* the last call was a findUserByFaceDescriptor
LookupRan == last.op = "findUserByFaceDescriptor"

\* the stored users whose descriptor has another length than the descriptor
\* looked up by the last findUserByFaceDescriptor
OtherLength ==
    {i \in 1..Len(users) :
        users[i].faceDescriptor.len # last.inputDescriptor.len}

\* C14: calculateEuclideanDistance throws on arrays of different lengths, and
\* a findUserByFaceDescriptor that meets a stored descriptor of another length
\* than the one looked up ends with that error, not with null or a user.
C14_MismatchReachesCaller ==
    (LookupRan /\ OtherLength # {}) =>
        /\ \A i \in OtherLength :
               calculateEuclideanDistance(last.inputDescriptor,
                                          users[i].faceDescriptor) = Throw
        /\ last.result = Throw

\* C15: a POST /api/recognize leaves the table of users as it was; it leaves
\* the sessions as they were when it recognized nobody, and otherwise adds
\* exactly one session, for the recognized user, after the existing ones.
C15_RecognitionWritesOneSession ==
    [][(calls' # calls /\ last'.op = "recognize") =>
         /\ users' = users
         /\ ~last'.response.recognized => sessions' = sessions
         /\ last'.response.recognized =>
              /\ Len(sessions') = Len(sessions) + 1
              /\ SubSeq(sessions', 1, Len(sessions)) = sessions
              /\ sessions'[Len(sessions')].userId = last'.response.data.userId]_vars

\* C15 witness: with two users stored, a recognition matched the second one
\* and the only session is the one it wrote
C15_Witness ==
    /\ Recognized
    /\ Len(users) = 2
    /\ Len(sessions) = 1
    /\ sessions[1].userId = last.response.data.userId
    /\ users[2].id = last.response.data.userId

\* the rows of users in the order perm
Reordered(perm) == [i \in 1..Len(users) |-> users[perm[i]]]

\* the known descriptors of the last findBestMatch in the order perm
ReorderedKnown(perm) ==
    [i \in 1..Len(last.knownDescriptors) |-> last.knownDescriptors[perm[i]]]

\* the known descriptor that carries the user id of a result of findBestMatch
KnownOf(result) ==
    CHOOSE i \in 1..Len(last.knownDescriptors) :
        last.knownDescriptors[i].userId = result.userId

\* C16: findUserByFaceDescriptor computes one distance for each stored user,
\* and for every order of the same catalog it and findBestMatch return null in
\* the same cases and otherwise a candidate at the same distance.
C16_OrderDoesNotMatter ==
    /\ RecognitionRan =>
         /\ last.response.distanceCalls = Len(users)
         /\ \A perm \in Permutations(1..Len(users)) :
              LET other == findUserByFaceDescriptor(Reordered(perm),
                              last.body.faceDescriptor, last.response.threshold)
              IN  /\ other.distanceCalls = Len(users)
                  /\ (other.user = Null) <=> ~last.response.recognized
                  /\ other.user # Null =>
                       calculateEuclideanDistance(last.body.faceDescriptor,
                                                  other.user.faceDescriptor)
                           = QueryDistance(MatchedRow)
    /\ BestMatchRan =>
         \A perm \in Permutations(1..Len(last.knownDescriptors)) :
              LET other == findBestMatch(last.inputDescriptor,
                              ReorderedKnown(perm), last.threshold)
              IN  /\ (other = Null) <=> (last.result = Null)
                  /\ other # Null =>
                       /\ KnownDistance(KnownOf(other)) = KnownDistance(MatchedKnown)
                       /\ other.confidence = last.result.confidence

\* C16 witness: a recognition ran on two candidates below the threshold, the
\* second closer than the first, and returned the second
C16_Witness ==
    /\ Recognized
    /\ Len(users) = 2
    /\ LessThan(QueryDistance(1), last.response.threshold)
    /\ LessThan(QueryDistance(2), QueryDistance(1))
    /\ MatchedRow = 2
    /\ last.response.distanceCalls = 2

\* a left fold of Step over the sequence seq, starting from acc
RECURSIVE FoldLeft(_, _, _)
FoldLeft(Step(_, _), acc, seq) ==
    IF seq = <<>> THEN acc
    ELSE FoldLeft(Step, Step(acc, Head(seq)), Tail(seq))

\* the step of the fold for a stored user: the accumulator is replaced when
\* the candidate is strictly closer than its distance
UserStep(acc, candidate) ==
    LET d == calculateEuclideanDistance(last.body.faceDescriptor,
                                        candidate.faceDescriptor)
    IN  IF LessThan(d, acc.distance)
        THEN [distance |-> d, match |-> Num(candidate.id)]
        ELSE acc

\* the step of the fold for a known descriptor of findBestMatch
KnownStep(acc, candidate) ==
    LET d == compareFaceDescriptors(last.inputDescriptor, candidate.descriptor)
    IN  IF LessThan(d, acc.distance)
        THEN [distance |-> d, match |-> Num(candidate.userId)]
        ELSE acc

\* C17: the loop of findUserByFaceDescriptor and the loop of findBestMatch
\* select the profile that the fold over the candidates selects from the
\* accumulator (distance = threshold, match = null), and return null when the
\* fold ends with match = null.
C17_LoopIsAFold ==
    /\ RecognitionRan =>
         LET folded == FoldLeft(UserStep,
                          [distance |-> last.response.threshold, match |-> Null],
                          users)
         IN  IF folded.match = Null
             THEN ~last.response.recognized
             ELSE /\ last.response.recognized
                  /\ Num(last.response.data.userId) = folded.match
    /\ BestMatchRan =>
         LET folded == FoldLeft(KnownStep,
                          [distance |-> KnownThreshold, match |-> Null],
                          last.knownDescriptors)
         IN  IF folded.match = Null
             THEN last.result = Null
             ELSE /\ last.result # Null
                  /\ Num(last.result.userId) = folded.match
                  /\ last.result.confidence = OneMinus(folded.distance)

\* C17 witness: findBestMatch ran on two known descriptors below the
\* threshold, the second closer than the first, and returned the second
C17_Witness ==
    /\ BestMatchFound
    /\ Len(last.knownDescriptors) = 2
    /\ LessThan(KnownDistance(1), KnownThreshold)
    /\ LessThan(KnownDistance(2), KnownDistance(1))
    /\ MatchedKnown = 2

\* C18: the page is in the processing step only with the 8 photos of the pass
\* in the list, passes from capture to processing with the step that adds the
\* 8th photo, and is never in the capture step with 8 photos.
C18_EightPhotosThenProcessing ==
    /\ [](currentStep = "processing" => Len(photos) = 8)
    /\ [](currentStep = "capture" => Len(photos) < 8)
    /\ [][(currentStep = "capture" /\ currentStep' = "processing") =>
            (Len(photos) = 7 /\ Len(photos') = 8)]_vars

\* the loads of the loader m that are in progress or have succeeded
LiveLoads(m) ==
    {k \in 1..Len(promises[m]) : promises[m][k] \in {"pending", "fulfilled"}}

\* C19: for each loader, every load but the last one started has failed, so
\* that no load is started while one is in progress or after one succeeded
\* and at most one is in progress; and a call made while a load is in
\* progress or after one succeeded starts no load and returns the promise of
\* that load.
C19_LoadedOnce ==
    /\ [](\A m \in Loaders :
            /\ \A k \in 1..(Len(promises[m]) - 1) : promises[m][k] = "rejected"
            /\ Cardinality(LiveLoads(m)) <= 1)
    /\ [][\A m \in Loaders :
            (Len(loadCalls'[m]) = Len(loadCalls[m]) + 1 /\ LiveLoads(m) # {}) =>
                /\ promises'[m] = promises[m]
                /\ \E k \in LiveLoads(m) :
                       loadCalls'[m][Len(loadCalls'[m])]
                           = [pc |-> "returned", promise |-> Promise(k)]]_vars

\* C19 witness: the first load of loadFaceApiModels failed and its caller
\* threw, a second call started the second load, and a third call made while
\* that load was in progress returned its promise; the load then succeeded
C19_Witness ==
    /\ promises["loadFaceApiModels"] = <<"rejected", "fulfilled">>
    /\ Len(loadCalls["loadFaceApiModels"]) = 3
    /\ loadCalls["loadFaceApiModels"][1].pc = "threw"
    /\ loadCalls["loadFaceApiModels"][2] = [pc |-> "returned", promise |-> Promise(2)]
    /\ loadCalls["loadFaceApiModels"][3] = [pc |-> "returned", promise |-> Promise(2)]
    /\ loaderModelsLoaded["loadFaceApiModels"]

\* the last call was a POST /api/users that passed validation and whose email
\* another stored user has: a stored user other than the one the call created
SameEmailStored ==
    /\ last.op = "users"
    /\ Truthy(last.body.name)
    /\ ~BadShape(last.body.faceDescriptor)
    /\ \E i \in 1..Len(users) :
        /\ users[i].email # Null
        /\ users[i].email = EmailOf(last.body)
        /\ users[i] # last.response.created

\* C20: no two stored users share an email, whatever the interleaving of the
\* POST /api/users requests, and a request whose email a stored user already
\* has is answered with status 409 "User with this email already exists".
C20_DuplicateEmailIs409 ==
    /\ \A i, j \in 1..Len(users) :
        (i < j /\ users[i].email # Null) => users[i].email # users[j].email
    /\ SameEmailStored =>
        /\ last.response.status = 409
        /\ last.response.error = "User with this email already exists"

\* this step is the answer of POST /api/users to the request of this
\* registration, and the answer reports success: the user is stored under the
\* name of the form
ApiReportedSuccess ==
    /\ request # Null
    /\ request.name = formData.name
    /\ UsersPOST(request.body, users).status = 201
    /\ Len(users') = Len(users) + 1
    /\ users'[Len(users')].name = Trim(formData.name)

\* C21: the step of the training page changes only from form to capture on a
\* submit with a name that is not blank, from capture to processing, from
\* processing to complete on the success answer of the users API for this
\* registration, and from complete to form by resetTraining, which empties
\* the form and the photo list; and a submit with a blank name leaves the step
\* at form with the error "Name is required".
C21_StepMoves ==
    /\ [][currentStep' # currentStep =>
            \/ /\ currentStep = "form" /\ currentStep' = "capture"
               /\ Trim(formData.name) # ""
            \/ /\ currentStep = "capture" /\ currentStep' = "processing"
            \/ /\ currentStep = "processing" /\ currentStep' = "complete"
               /\ ApiReportedSuccess
            \/ /\ currentStep = "complete" /\ currentStep' = "form"
               /\ formData' = [name |-> "", email |-> ""]
               /\ photos' = <<>>
               /\ currentPhotoIndex' = 0]_vars
    /\ [][(handleFormSubmit /\ Trim(formData.name) = "") =>
            (currentStep' = "form" /\ error' = "Name is required")]_vars

\* C21 witness: a registration went from form to complete and back to form,
\* and the submit of a name made of spaces was then refused
C21_Witness ==
    /\ Len(users) = 1
    /\ currentStep = "form"
    /\ formData.name = "  "
    /\ error = "Name is required"

\* this step ends the countdown: the interval is cleared and capturePhoto is
\* called, which starts to load the screenshot or reports that there is none
CapturePhotoCalled ==
    /\ interval # Null
    /\ interval' = Null
    /\ \/ image' # Null
       \/ error' = "Failed to capture image" /\ ~isCapturing'

\* C22: startPhotoCapture is accepted only with the models loaded and no
\* capture in progress, when no countdown timer runs and no screenshot is
\* being loaded; a timer or a screenshot that is being loaded implies
\* isCapturing; the countdown starts at CAPTURE_DELAY with the start of a
\* timer and goes down by one while the timer runs; and the timer ends only
\* with the tick that takes the countdown from 1 to 0, which calls
\* capturePhoto.
C22_OneCountdown ==
    /\ [][startPhotoCapture =>
            (modelsLoaded /\ ~isCapturing /\ interval = Null /\ image = Null)]_vars
    /\ []((interval # Null \/ image # Null) => isCapturing)
    /\ [][captureCountdown' # captureCountdown =>
            \/ /\ interval = Null /\ interval' # Null
               /\ captureCountdown = 0 /\ captureCountdown' = CAPTURE_DELAY
            \/ /\ interval # Null
               /\ captureCountdown' = captureCountdown - 1]_vars
    /\ [][(interval # interval' /\ interval # Null) =>
            (captureCountdown = 1 /\ captureCountdown' = 0 /\ CapturePhotoCalled)]_vars

\* C22 witness: after a first photo the capture button was clicked again and
\* the countdown of the second capture has gone from 3 to 1
C22_Witness ==
    /\ Len(photos) = 1
    /\ isCapturing
    /\ interval # Null
    /\ captureCountdown = 1

\* C23: whenever a capture is in progress, isCapturing is false again at some
\* later time.
C23_CaptureEnds == isCapturing ~> ~isCapturing

\* processTrainingData has run in the pass that is in progress: it was the
\* last operation, and resetTraining has not started another pass since
RanInThisPass == last.op = "processTrainingData"

\* C24: processTrainingData runs, and a POST /api/users request is sent, only
\* in a pass in which processTrainingData has not run before, and a request
\* is sent only by the step that runs processTrainingData.
C24_OneRunPerPass ==
    /\ [][calls' # calls => ~RanInThisPass]_vars
    /\ [][(request' # Null /\ request' # request) =>
            (calls' = calls + 1 /\ ~RanInThisPass /\ request = Null)]_vars

\* C24 witness: the second pass has run processTrainingData, after the first
\* pass ran it once and registered its user
C24_Witness ==
    /\ RanInThisPass
    /\ calls = 2
    /\ Len(users) = 1

\* processTrainingData has failed: the page is in the processing step with an
\* error shown, no request under way and nothing left to run
ProcessingFailed ==
    /\ currentStep = "processing"
    /\ RanInThisPass
    /\ ~effectDue
    /\ ~isProcessing
    /\ request = Null
    /\ error # ""

\* what the visitor can do on the page: edit the form, submit it, click the
\* capture button, click "Train Another User"
UserAction ==
    \/ ChangeName \/ ChangeEmail \/ handleFormSubmit
    \/ startPhotoCapture
    \/ resetTraining

\* C25: in every state in which processing has failed the page offers the
\* visitor some action (without one, nothing leads back to the form or the
\* capture step).
C25_NoDeadEnd == ProcessingFailed => ENABLED UserAction

\* C26: every caller of loadFaceApiModels whose call has resolved found
\* areModelsLoaded() true when it went on; areModelsLoaded() is true only if
\* a load has ended without error; and getModelLoadingStatus never reports
\* isLoading and isLoaded together.
C26_LoadedWhenResolved ==
    /\ \A c \in 1..Len(loadCalls["loadFaceApiModels"]) :
        loadCalls["loadFaceApiModels"][c].pc = "resolved" =>
            loadCalls["loadFaceApiModels"][c].loaded
    /\ areModelsLoaded =>
        \E k \in 1..Len(promises["loadFaceApiModels"]) :
            promises["loadFaceApiModels"][k] = "fulfilled"
    /\ ~(getModelLoadingStatus.isLoading /\ getModelLoadingStatus.isLoaded)

\* C26 witness: two callers of loadFaceApiModels were given the promise of
\* the same load, the load succeeded and both calls have resolved
C26_Witness ==
    /\ Len(loadCalls["loadFaceApiModels"]) = 2
    /\ \A c \in 1..2 :
        /\ loadCalls["loadFaceApiModels"][c].pc = "resolved"
        /\ loadCalls["loadFaceApiModels"][c].promise = Promise(1)
    /\ getModelLoadingStatus.isLoaded

C28_OffStaysOff ==
    /\ [][(toggleCamera /\ state.isActive) =>
            (~state'.isActive /\ state'.detectedFaces = 0 /\ ~state'.isDetecting)]_vars
    /\ [][(/\ ~state.isActive /\ ~state'.isActive
           /\ state.detectedFaces = 0 /\ ~state.isDetecting) =>
            (state'.detectedFaces = 0 /\ ~state'.isDetecting)]_vars

\* C28 witness: the camera is off while a detectFaces call made with the
\* camera on is still awaited, and another such call has come back into the
\* catch of performFaceDetection
C28_Witness ==
    /\ mounted
    /\ ~state.isActive /\ state.hasPermission /\ state.modelsLoaded
    /\ state.permissionError = ""
    /\ pending.detections > 0
    /\ state.detectionError = "Face detection failed"
    /\ state.detectedFaces = 0 /\ ~state.isDetecting
====
